---------------------------- MODULE Spec2Model ----------------------------
(***************************************************************************)
(* Model of limesurveyrc2api: the _Survey operations (_survey.py), their   *)
(* response classification, the question document builder and the         *)
(* IDGenerator (_utils.py).                                                *)
(*                                                                         *)
(* Representation.  A Python value is a record with one fixed shape (PyVal *)
(* below).  A Python str whose characters matter (upper(), int(), base64,  *)
(* the ID alphabet) is a sequence of one-character strings; status         *)
(* strings, method names and parameter names are only ever compared for    *)
(* equality and are TLA+ strings.  Rendered text is a TLA+ string built    *)
(* with \o.  Python integers are unbounded: the integers the IDGenerator   *)
(* draws are sequences of base-2^15 limbs, least significant first.        *)
(* Interpreter assumed: CPython 3.7/3.8 (dict keeps insertion order,       *)
(* base64.encodestring/decodestring exist, json.loads accepts bytes).      *)
(***************************************************************************)
EXTENDS Integers, Sequences, FiniteSets, TLC

VARIABLES
    pc,            \* "idle" | "waiting" (inside api.query) | "done"
    op,            \* name of the _Survey method being executed
    args,          \* the arguments it was called with
    method,        \* local `method` of the running operation
    params,        \* local `params`: the OrderedDict given to api.query
    fields,        \* local `fields` of add_question
    calls,         \* api.query calls issued by the running operation
    response,      \* value api.query returned
    outcome,       \* how the operation ended
    warned,        \* warnings.warn categories emitted by the operation
    session_key,   \* api.session_key (owned by the transport)
    username,      \* api.username (owned by the transport)
    id_length,     \* IDGenerator._id_length
    rand_n,        \* integer random.randint returned to generate_id
    generated,     \* characters generate_id returned
    rendered       \* text a render_lsq_* function returned to a direct caller

vars == <<pc, op, args, method, params, fields, calls, response, outcome, warned,
          session_key, username, id_length, rand_n, generated, rendered>>

-----------------------------------------------------------------------------
(* Bounds of the model *)

\* IDGenerator lengths 1..MaxExhaustiveLength are explored with every integer
\* of the randint range; longer IDs with samples of the range.
MaxExhaustiveLength == 2
\* samples of a long randint range: offsets 0..MaxOffset from its start
MaxOffset == 1
\* byte length of the documents the transport base64-encodes in export replies
MaxJsonLen == 3
\* number of fields of the mappings given to the render_lsq_* functions
MaxFields == 2

-----------------------------------------------------------------------------
(* Python values *)

PyVal(t, n, txt, ks, st, its, doc) ==
    [type |-> t, num |-> n, text |-> txt, keys |-> ks, status |-> st,
     items |-> its, b64 |-> doc]

PyNone == PyVal("NoneType", 0, <<>>, {}, "", <<>>, "")
PyInt(n) == PyVal("int", n, <<>>, {}, "", <<>>, "")
PyBool(b) == PyVal("bool", IF b THEN 1 ELSE 0, <<>>, {}, "", <<>>, "")
PyStr(chars) == PyVal("str", 0, chars, {}, "", <<>>, "")
PyList(its) == PyVal("list", 0, <<>>, {}, "", its, "")
\* a dict with key set ks; st is the value under "status" when present
PyDict(ks, st) == PyVal("dict", 0, <<>>, ks, st, <<>>, "")
\* the str that is the base64 encoding of the text doc
PyB64(doc) == PyVal("str", 0, <<>>, {}, "", <<>>, doc)

\* Python truthiness (`x or y`, `if x`, `not x`)
Truthy(v) ==
    CASE v.type = "NoneType" -> FALSE
      [] v.type \in {"int", "bool"} -> v.num # 0
      [] v.type = "str" -> v.text # <<>> \/ v.b64 # ""
      [] v.type = "list" -> v.items # <<>>
      [] v.type = "dict" -> v.keys # {}
      [] OTHER -> TRUE

RECURSIVE Join(_)
\* ''.join(chars)
Join(chars) == IF chars = <<>> THEN "" ELSE Head(chars) \o Join(Tail(chars))

Digits == <<"0", "1", "2", "3", "4", "5", "6", "7", "8", "9">>

IndexOf(seq, c) == CHOOSE i \in 1..Len(seq) : seq[i] = c

RECURSIVE IntToStr(_)
\* str(n) for n >= 0
IntToStr(n) == IF n < 10 THEN Digits[n + 1]
               ELSE IntToStr(n \div 10) \o Digits[(n % 10) + 1]

\* '%s' % value
Format(v) ==
    CASE v.type = "NoneType" -> "None"
      [] v.type = "int" -> IF v.num < 0 THEN "-" \o IntToStr(-v.num) ELSE IntToStr(v.num)
      [] v.type = "bool" -> IF v.num = 1 THEN "True" ELSE "False"
      [] v.type = "str" -> Join(v.text)
      [] OTHER -> "?"

IsDigits(chars) == chars # <<>> /\ \A i \in 1..Len(chars) : \E d \in 1..10 : Digits[d] = chars[i]

RECURSIVE ParseDigits(_)
ParseDigits(chars) ==
    IF chars = <<>> THEN 0
    ELSE 10 * ParseDigits(SubSeq(chars, 1, Len(chars) - 1))
         + (IndexOf(Digits, chars[Len(chars)]) - 1)

\* int(v) can be computed (v an int, a bool or a string of decimal digits)
IntCastable(v) == \/ v.type \in {"int", "bool"}
                  \/ v.type = "str" /\ IsDigits(v.text)

\* int(v)
IntCast(v) == IF v.type = "str" THEN ParseDigits(v.text) ELSE v.num

-----------------------------------------------------------------------------
(* _utils.py: IDGenerator *)

ALPHABET ==
    <<"a", "b", "c", "d", "e", "f", "g", "h", "i", "j", "k", "l", "m",
      "n", "o", "p", "q", "r", "s", "t", "u", "v", "w", "x", "y", "z",
      "0", "1", "2", "3", "4", "5", "6", "7", "8", "9">>

\* self._alphabet_length
alphabet_length == Len(ALPHABET)

\* Unbounded integers: limbs in base 2^15, least significant first, no
\* leading (most significant) zero limb; zero is <<>>.
LimbBase == 2 ^ 15

RECURSIVE ToBig(_)
ToBig(k) == IF k = 0 THEN <<>> ELSE <<k % LimbBase>> \o ToBig(k \div LimbBase)

RECURSIVE BigToInt(_)
\* only used on values below 2^30
BigToInt(a) == IF a = <<>> THEN 0 ELSE a[1] + LimbBase * BigToInt(Tail(a))

RECURSIVE BigMulAdd(_, _, _)
\* a * m + c for small m >= 1 and c >= 0
BigMulAdd(a, m, c) ==
    IF a = <<>> THEN ToBig(c)
    ELSE LET t == a[1] * m + c
         IN <<t % LimbBase>> \o BigMulAdd(Tail(a), m, t \div LimbBase)

RECURSIVE BigPred(_)
\* a - 1 for a > 0
BigPred(a) ==
    IF a[1] > 0
    THEN IF Len(a) = 1 /\ a[1] = 1 THEN <<>> ELSE <<a[1] - 1>> \o Tail(a)
    ELSE <<LimbBase - 1>> \o BigPred(Tail(a))

RECURSIVE BigDivMod(_, _)
\* divmod(a, d) for small d >= 1
BigDivMod(a, d) ==
    IF a = <<>> THEN [q |-> <<>>, r |-> 0]
    ELSE LET hi == BigDivMod(Tail(a), d)
             cur == hi.r * LimbBase + a[1]
         IN [q |-> IF hi.q = <<>> /\ cur \div d = 0 THEN <<>>
                   ELSE <<cur \div d>> \o hi.q,
             r |-> cur % d]

RECURSIVE BigPow(_, _)
\* m ** e
BigPow(m, e) == IF e = 0 THEN <<1>> ELSE BigMulAdd(BigPow(m, e - 1), m, 0)

RECURSIVE EncodeLoop_appending(_, _)
\* the loop with each digit put after the ones already encoded
EncodeLoop_appending(n, encoded) ==
    IF n # <<>>
    THEN LET dm == BigDivMod(n, alphabet_length)
         IN EncodeLoop_appending(dm.q, encoded \o <<ALPHABET[dm.r + 1]>>)
    ELSE encoded

RECURSIVE EncodeLoop(_, _)
\* the while loop of _encode_int: digits are prepended, so the most
\* significant digit ends up first
EncodeLoop(n, encoded) ==
    IF n # <<>>
    THEN LET dm == BigDivMod(n, alphabet_length)
         IN EncodeLoop(dm.q, <<ALPHABET[dm.r + 1]>> \o encoded)
    ELSE encoded

_encode_int(n) == EncodeLoop(n, <<>>)

\* The integers random.randint(a, b) may return.  A range inside
\* [0, 36^MaxExhaustiveLength) is enumerated; of a longer range the model
\* draws both ends, the integers next to them, a multiple of a and a
\* fraction of b.
randint(a, b) ==
    IF Len(b) <= 2 /\ BigToInt(b) < alphabet_length ^ MaxExhaustiveLength
    THEN {ToBig(k) : k \in BigToInt(a)..BigToInt(b)}
    ELSE {BigMulAdd(a, 1, c) : c \in 0..MaxOffset}
         \cup {b, BigPred(b)}
         \cup {BigMulAdd(a, alphabet_length - 1, 0), BigDivMod(b, 13).q}

\* start and end of generate_id
IdStart(length) == BigPow(alphabet_length, length - 1)
IdEnd(length) == BigPred(BigPow(alphabet_length, length))

\* the values generate_id may return for an IDGenerator of this length,
\* with the integer drawn
generate_id_draws(length) ==
    {[n |-> n, id |-> _encode_int(n)] : n \in randint(IdStart(length), IdEnd(length))}

-----------------------------------------------------------------------------
(* _survey.py: the question document *)

question_template(fieldnames, rows) ==
    "<?xml version=\"1.0\" encoding=\"UTF-8\"?>\n"
    \o "<document>\n"
    \o " <LimeSurveyDocType>Question</LimeSurveyDocType>\n"
    \o " <DBVersion>355</DBVersion>\n"
    \o " <languages>\n"
    \o "  <language>en</language>\n"
    \o " </languages>\n"
    \o " <questions>\n"
    \o "  " \o fieldnames \o "\n"
    \o "  " \o rows \o "\n"
    \o " </questions>\n"
    \o "</document>\n"

question_fieldnames ==
    <<"qid", "parent_qid", "sid", "gid", "type", "title", "question", "preg",
      "help", "other", "mandatory", "question_order", "language", "scale_id",
      "same_default", "relevance", "modulename">>

\* QUESTION_TYPE.__members__: member name -> value
QUESTION_TYPE ==
    "LIST_5_POINT_CHOICE" :> "5" @@ "LIST_DROPDOWN" :> "!"
    @@ "LIST_WITH_COMMENT" :> "O" @@ "LIST_RADIO" :> "L"
    @@ "ARRAY" :> "F" @@ "ARRAY_10_POINT_CHOICE" :> "B"
    @@ "ARRAY_5_POINT_CHOICE" :> "A" @@ "ARRAY_INCREASE_SAME_DECREASE" :> "E"
    @@ "ARRAY_NUMBERS" :> ":" @@ "ARRAY_TEXTS" :> ";"
    @@ "ARRAY_YES_NO_UNCERTAIN" :> "C" @@ "ARRAY_COLUMN" :> "H"
    @@ "ARRAY_DUAL_SCALE" :> "1"
    @@ "MASK_DATE_TIME" :> "D" @@ "MASK_EQUATION" :> "*"
    @@ "MASK_FILE_UPLOAD" :> "|" @@ "MASK_GENDER" :> "G"
    @@ "MASK_LANGUAGE_SWITCH" :> "I" @@ "MASK_MULTIPLE_NUMERICAL_INPUT" :> "K"
    @@ "MASK_NUMERICAL_INPUT" :> "N" @@ "MASK_RANKING" :> "R"
    @@ "MASK_TEXT_DISPLAY" :> "X" @@ "MASK_YES_NO" :> "Y"
    @@ "TEXT_HUGE_FREE_TEXT" :> "U" @@ "TEXT_LONG_FREE_TEXT" :> "T"
    @@ "TEXT_MULTIPLE_SHORT_TEXT" :> "Q" @@ "TEXT_SHORT_FREE_TEXT" :> "S"
    @@ "MULTIPLE_CHOICE" :> "M" @@ "MULTIPLE_CHOICE_WITH_COMMENT" :> "P"

\* A dict is the sequence of its items in insertion order.
RECURSIVE DictFromKeys(_)
\* dict.fromkeys(names)
DictFromKeys(names) ==
    IF names = <<>> THEN <<>>
    ELSE <<[k |-> Head(names), v |-> PyNone]>> \o DictFromKeys(Tail(names))

HasKey(d, k) == \E i \in 1..Len(d) : d[i].k = k

\* d[k] = v: an existing key keeps its place, a new key goes last
DictSet(d, k, v) ==
    IF HasKey(d, k)
    THEN [i \in 1..Len(d) |-> IF d[i].k = k THEN [k |-> k, v |-> v] ELSE d[i]]
    ELSE Append(d, [k |-> k, v |-> v])

RECURSIVE DictUpdate(_, _)
\* d.update(other)
DictUpdate(d, other) ==
    IF other = <<>> THEN d
    ELSE DictUpdate(DictSet(d, Head(other).k, Head(other).v), Tail(other))

DictGet(d, k) == d[CHOOSE i \in 1..Len(d) : d[i].k = k].v

RECURSIVE render_lsq_fieldnames_loop(_)
render_lsq_fieldnames_loop(fieldnames) ==
    IF fieldnames = <<>> THEN ""
    ELSE "<fieldname>" \o Head(fieldnames) \o "</fieldname>"
         \o render_lsq_fieldnames_loop(Tail(fieldnames))

render_lsq_fieldnames(fieldnames) ==
    "<fields>" \o render_lsq_fieldnames_loop(fieldnames) \o "</fields>"

RECURSIVE render_lsq_rows_loop_falsy_empty(_)
\* the loop with `if not value` in the place of `if value is None`
render_lsq_rows_loop_falsy_empty(fieldvalues) ==
    IF fieldvalues = <<>> THEN ""
    ELSE LET fieldname == Head(fieldvalues).k
             value == Head(fieldvalues).v
         IN (IF ~Truthy(value)
             THEN "<" \o fieldname \o "/>"
             ELSE "<" \o fieldname \o "><![CDATA[" \o Format(value)
                  \o "]]></" \o fieldname \o ">")
            \o render_lsq_rows_loop_falsy_empty(Tail(fieldvalues))

RECURSIVE render_lsq_rows_loop(_)
\* the for loop of render_lsq_rows over fieldvalues.items()
render_lsq_rows_loop(fieldvalues) ==
    IF fieldvalues = <<>> THEN ""
    ELSE LET fieldname == Head(fieldvalues).k
             value == Head(fieldvalues).v
         IN (IF value = PyNone
             THEN "<" \o fieldname \o "/>"
             ELSE "<" \o fieldname \o "><![CDATA[" \o Format(value)
                  \o "]]></" \o fieldname \o ">")
            \o render_lsq_rows_loop(Tail(fieldvalues))

render_lsq_rows(fieldvalues) ==
    "<rows><row>" \o render_lsq_rows_loop(fieldvalues) \o "</row></rows>"

\* fields.keys()
DictKeys(d) == [i \in 1..Len(d) |-> d[i].k]

\* the text render_lsq hands to encodestring
lsq_str(flds) ==
    question_template(render_lsq_fieldnames(DictKeys(flds)), render_lsq_rows(flds))

\* encodestring(lsq_str.encode('utf-8')).decode('utf-8'): the base64 text of
\* the document.  base64 is one-to-one, the str is kept as the document
\* it encodes.
render_lsq(flds) == PyB64(lsq_str(flds))

LowerLetters == SubSeq(ALPHABET, 1, 26)
UpperLetters ==
    <<"A", "B", "C", "D", "E", "F", "G", "H", "I", "J", "K", "L", "M",
      "N", "O", "P", "Q", "R", "S", "T", "U", "V", "W", "X", "Y", "Z">>

\* str.upper()
upper(chars) ==
    [i \in 1..Len(chars) |->
        IF \E j \in 1..26 : LowerLetters[j] = chars[i]
        THEN UpperLetters[IndexOf(LowerLetters, chars[i])]
        ELSE chars[i]]

\* the member name looked up without upper()
resolved_name_as_given(question_type) ==
    IF ~Truthy(question_type) THEN "TEXT_SHORT_FREE_TEXT"
    ELSE Join(question_type.text)

\* add_question: the member name looked up (None when the lookup is refused)
\* `if not question_type: ...; question_type = question_type.upper()`
resolved_name(question_type) ==
    IF ~Truthy(question_type) THEN "TEXT_SHORT_FREE_TEXT"
    ELSE Join(upper(question_type.text))

\* `question_type not in QUESTION_TYPE.__members__`
invalid_question_type(question_type) ==
    resolved_name(question_type) \notin DOMAIN QUESTION_TYPE

\* getattr(QUESTION_TYPE, question_type).value
question_type_value(question_type) == QUESTION_TYPE[resolved_name(question_type)]

\* the dict built from the nine items first, the other names added after
question_fields_items_first(survey_id, group_id, question, question_help, question_type, mandatory, id) ==
    LET items ==
          << [k |-> "parent_qid", v |-> PyInt(0)],
             [k |-> "sid", v |-> PyInt(IntCast(survey_id))],
             [k |-> "gid", v |-> PyInt(IntCast(group_id))],
             [k |-> "title", v |-> PyStr(<<"q">> \o id)],
             [k |-> "question", v |-> question],
             [k |-> "help", v |-> question_help],
             [k |-> "type", v |-> PyStr(<<question_type_value(question_type)>>)],
             [k |-> "mandatory", v |-> IF Truthy(mandatory) THEN mandatory ELSE PyStr(<<"N">>)],
             [k |-> "language", v |-> PyStr(<<"e", "n">>)] >>
    IN items \o SelectSeq(DictFromKeys(question_fieldnames), LAMBDA e : ~HasKey(items, e.k))

\* the dict add_question builds: fromkeys, then update with the nine items
question_fields(survey_id, group_id, question, question_help, question_type, mandatory, id) ==
    DictUpdate(DictFromKeys(question_fieldnames),
        << [k |-> "parent_qid", v |-> PyInt(0)],
           [k |-> "sid", v |-> PyInt(IntCast(survey_id))],
           [k |-> "gid", v |-> PyInt(IntCast(group_id))],
           [k |-> "title", v |-> PyStr(<<"q">> \o id)],
           [k |-> "question", v |-> question],
           [k |-> "help", v |-> question_help],
           [k |-> "type", v |-> PyStr(<<question_type_value(question_type)>>)],
           [k |-> "mandatory", v |-> IF Truthy(mandatory) THEN mandatory ELSE PyStr(<<"N">>)],
           [k |-> "language", v |-> PyStr(<<"e", "n">>)] >>)

-----------------------------------------------------------------------------
(* base64.decodestring and json.loads, as export_responses uses them *)

B64Chars ==
    UpperLetters \o LowerLetters \o Digits \o <<"+", "/">>

IsB64Char(c) == \E i \in 1..64 : B64Chars[i] = c

RECURSIVE FindValid(_, _, _)
\* binascii_find_valid: the character after `num` valid ones from index i
\* on, "" when there is none ('=' counts as valid)
FindValid(s, i, num) ==
    IF i > Len(s) THEN ""
    ELSE IF IsB64Char(s[i]) \/ s[i] = "="
         THEN IF num = 0 THEN s[i] ELSE FindValid(s, i + 1, num - 1)
         ELSE FindValid(s, i + 1, num)

RECURSIVE A2bLoop(_, _, _, _, _, _)
\* binascii.a2b_base64: characters outside the alphabet are skipped, a pad
\* sequence ends the input, bits left over are an error
A2bLoop(s, i, quad_pos, leftchar, leftbits, out) ==
    IF i > Len(s)
    THEN [ok |-> leftbits = 0, bytes |-> out]
    ELSE IF s[i] = "="
    THEN IF quad_pos < 2 \/ (quad_pos = 2 /\ FindValid(s, i, 1) # "=")
         THEN A2bLoop(s, i + 1, quad_pos, leftchar, leftbits, out)
         ELSE [ok |-> TRUE, bytes |-> out]
    ELSE IF ~IsB64Char(s[i])
    THEN A2bLoop(s, i + 1, quad_pos, leftchar, leftbits, out)
    ELSE LET acc == leftchar * 64 + (IndexOf(B64Chars, s[i]) - 1)
             bits == leftbits + 6
         IN IF bits >= 8
            THEN A2bLoop(s, i + 1, (quad_pos + 1) % 4,
                         acc % (2 ^ (bits - 8)), bits - 8,
                         Append(out, (acc \div (2 ^ (bits - 8))) % 256))
            ELSE A2bLoop(s, i + 1, (quad_pos + 1) % 4, acc, bits, out)

\* decodestring(response.encode('utf-8')) on a str of ASCII characters
decodestring(chars) == A2bLoop(chars, 1, 0, 0, 0, <<>>)

\* byte values of the JSON characters
ByteSpace == 32
ByteComma == 44
ByteMinus == 45
ByteZero == 48
ByteNine == 57
ByteOpen == 91
ByteClose == 93

RECURSIVE SkipWs(_, _)
\* json.decoder.WHITESPACE.match(s, i).end()
SkipWs(s, i) ==
    IF i <= Len(s) /\ s[i] \in {ByteSpace, 9, 10, 13} THEN SkipWs(s, i + 1) ELSE i

IsDigitByte(b) == b >= ByteZero /\ b <= ByteNine

RECURSIVE DigitsEnd(_, _)
DigitsEnd(s, i) == IF i <= Len(s) /\ IsDigitByte(s[i]) THEN DigitsEnd(s, i + 1) ELSE i

RECURSIVE DigitsValue(_, _, _)
DigitsValue(s, i, j) ==
    IF j < i THEN 0 ELSE 10 * DigitsValue(s, i, j - 1) + (s[j] - ByteZero)

JsonFail == [ok |-> FALSE, val |-> PyNone, end |-> 0]

\* json.scanner NUMBER_RE, integer part: -?(0|[1-9][0-9]*)
ParseNumber(s, i) ==
    LET neg == s[i] = ByteMinus
        d == IF neg THEN i + 1 ELSE i
        e == IF d <= Len(s) /\ s[d] = ByteZero THEN d + 1 ELSE DigitsEnd(s, d)
    IN IF e = d THEN JsonFail
       ELSE [ok |-> TRUE,
             val |-> PyInt(IF neg THEN 0 - DigitsValue(s, d, e - 1)
                           ELSE DigitsValue(s, d, e - 1)),
             end |-> e]

RECURSIVE ParseValue(_, _)
RECURSIVE ParseElems(_, _, _)
\* json.scanner: one value starting at index i
ParseValue(s, i) ==
    IF i > Len(s) THEN JsonFail
    ELSE IF s[i] = ByteOpen
    THEN LET j == SkipWs(s, i + 1)
         IN IF j <= Len(s) /\ s[j] = ByteClose
            THEN [ok |-> TRUE, val |-> PyList(<<>>), end |-> j + 1]
            ELSE ParseElems(s, j, <<>>)
    ELSE IF s[i] = ByteMinus \/ IsDigitByte(s[i]) THEN ParseNumber(s, i)
    ELSE JsonFail

\* json.decoder.JSONArray after the first '['
ParseElems(s, j, acc) ==
    LET v == ParseValue(s, j)
        k == SkipWs(s, v.end)
    IN IF ~v.ok \/ k > Len(s) THEN JsonFail
       ELSE IF s[k] = ByteClose
       THEN [ok |-> TRUE, val |-> PyList(Append(acc, v.val)), end |-> k + 1]
       ELSE IF s[k] = ByteComma
       THEN ParseElems(s, SkipWs(s, k + 1), Append(acc, v.val))
       ELSE JsonFail

\* json.loads(bytes): one value, white space around it, nothing else
json_loads(bytes) ==
    LET v == ParseValue(bytes, SkipWs(bytes, 1))
    IN IF v.ok /\ SkipWs(bytes, v.end) = Len(bytes) + 1 THEN v ELSE JsonFail

-----------------------------------------------------------------------------
(* _survey.py: how an operation ends *)

NoOutcome == [kind |-> "none", value |-> PyNone, method |-> "", status |-> ""]
\* `return v`
Returned(v) == [kind |-> "return", value |-> v, method |-> "", status |-> ""]
\* an exception other than LimeSurveyError leaves the operation
Raised(kind) == [kind |-> kind, value |-> PyNone, method |-> "", status |-> ""]
\* raise LimeSurveyError(method, status)
LimeSurveyError(m, st) ==
    [kind |-> "LimeSurveyError", value |-> PyNone, method |-> m, status |-> st]

\* `response_type is dict and "status" in response`
HasStatus(r) == r.type = "dict" /\ "status" \in r.keys

\* Classify without the assert of the else branch
Classify_unasserted(m, empty_results, error_messages, expected, r) ==
    IF HasStatus(r)
    THEN IF \E i \in 1..Len(empty_results) : r.status = empty_results[i]
         THEN [kind |-> "return", value |-> PyList(<<>>), method |-> "", status |-> ""]
         ELSE IF \E i \in 1..Len(error_messages) : r.status = error_messages[i]
         THEN [kind |-> "LimeSurveyError", value |-> PyNone, method |-> m,
               status |-> r.status]
         ELSE [kind |-> "return", value |-> r, method |-> "", status |-> ""]
    ELSE [kind |-> "return", value |-> r, method |-> "", status |-> ""]

\* The block every operation but the last export_responses runs on the
\* response.  empty_results holds the status that means "nothing found"
\* (none for most operations), error_messages is the list the for loop
\* walks, expected the type of the assert.  A status the loop does not
\* match falls through to `return response`.
Classify(m, empty_results, error_messages, expected, r) ==
    IF HasStatus(r)
    THEN IF \E i \in 1..Len(empty_results) : r.status = empty_results[i]
         THEN Returned(PyList(<<>>))
         ELSE IF \E i \in 1..Len(error_messages) : r.status = error_messages[i]
         THEN LimeSurveyError(m, r.status)
         ELSE Returned(r)
    ELSE IF r.type = expected THEN Returned(r) ELSE Raised("AssertionError")

\* The error_messages lists, as Python builds them: two string literals
\* with no comma between them are one string.
list_surveys_errors == <<"Invalid user", "Invalid session key">>
list_questions_errors ==
    <<"Error: Invalid survey ID", "Error: Invalid language",
      "Error: IMissmatch in surveyid and groupid", "No permission",
      "Invalid session key">>
add_survey_errors ==
    <<"Creation Failed result" \o "Faulty parameters", "No permission",
      "Invalid session key">>
delete_survey_errors == <<"No permission", "Invalid session key">>
export_responses_first_errors ==
    <<"Language code not found for this survey.",
      "No Data, could not get max id.",
      "No Data, survey table does not exist", "No permission",
      "Invalid session key">>
add_question_errors ==
    <<"Error: ...", "Invalid extension", "No permission", "Invalid session key">>
delete_question_errors == <<"No permission", "Invalid session key">>
import_survey_errors ==
    <<"Error: ...", "Invalid extension", "No permission", "Invalid session key">>
activate_survey_errors ==
    <<"Error: Invalid survey ID", "Error: Activation Error", "Error: ...",
      "No permission", "Invalid session key">>
activate_tokens_errors ==
    <<"Error: Invalid survey ID",
      "Survey participants table could not be created", "No permission",
      "Invalid session key">>
list_groups_errors ==
    <<"Error: Invalid survey ID", "No permission" \o "Invalid S ession key">>
add_group_errors ==
    <<"Creation Failed result" \o "Faulty parameters", "No permission",
      "Invalid session key">>
get_survey_properties_errors ==
    <<"No valid Data", "Invalid survey ID", "No permission", "Invalid session key">>
set_survey_properties_errors ==
    <<"Invalid survey ID" \o "No valid Data", "No permission", "Invalid session key">>
add_response_errors ==
    <<"Invalid survey ID" \o "No permission", "Invalid session key">>

\* What each operation does with the response r of its query call.
list_surveys_result(r) ==
    Classify("list_surveys", <<"No surveys found">>, list_surveys_errors, "list", r)
list_questions_result(r) ==
    Classify("list_questions", <<"No questions found">>, list_questions_errors, "list", r)
add_survey_result(r) ==
    Classify("add_survey", <<>>, add_survey_errors, "int", r)
delete_survey_result(r) ==
    Classify("delete_survey", <<>>, delete_survey_errors, "list", r)
add_question_result(r) ==
    Classify("import_question", <<>>, add_question_errors, "int", r)
delete_question_result(r) ==
    Classify("delete_question", <<>>, delete_question_errors, "int", r)
import_survey_result(r) ==
    Classify("import_survey", <<>>, import_survey_errors, "int", r)
activate_survey_result(r) ==
    Classify("activate_survey", <<>>, activate_survey_errors, "list", r)
activate_tokens_result(r) ==
    Classify("activate_tokens", <<>>, activate_tokens_errors, "list", r)
\* list_groups without the test for 'No groups found'
list_groups_result_unchecked(r) ==
    Classify("list_groups", <<>>, list_groups_errors, "list", r)
list_groups_result(r) ==
    Classify("list_groups", <<"No groups found">>, list_groups_errors, "list", r)
add_group_result(r) ==
    Classify("add_group", <<>>, add_group_errors, "int", r)
get_survey_properties_result(r) ==
    Classify("get_survey_properties", <<>>, get_survey_properties_errors, "dict", r)
set_survey_properties_result(r) ==
    Classify("set_survey_properties", <<>>, set_survey_properties_errors, "dict", r)
add_response_result(r) ==
    Classify("add_response", <<>>, add_response_errors, "int", r)

\* export_responses as first defined in the class body (lines 246-303); the
\* later definition of the same name replaces it.
export_responses_first_result(r) ==
    Classify("export_responses", <<>>, export_responses_first_errors, "str", r)

\* the first definition's block in place of the second's
export_responses_result_raw(r) ==
    Classify("export_responses", <<>>, export_responses_first_errors, "str", r)

\* export_responses as bound on _Survey (lines 704-728): any status raises,
\* a str is base64-decoded and parsed.
export_responses_result(r) ==
    IF HasStatus(r) THEN LimeSurveyError("export_responses", r.status)
    ELSE IF r.type # "str" THEN Raised("AssertionError")
    ELSE LET decoded == decodestring(r.text)
         IN IF ~decoded.ok THEN Raised("binascii.Error")
            ELSE LET parsed == json_loads(decoded.bytes)
                 IN IF parsed.ok THEN Returned(parsed.val)
                    ELSE Raised("JSONDecodeError")

\* the operations of _Survey, in the order of the class body
Operations ==
    {"list_surveys", "list_questions", "add_survey", "delete_survey",
     "add_question", "delete_question", "import_survey", "activate_survey",
     "activate_tokens", "list_groups", "add_group", "get_survey_properties",
     "set_survey_properties", "add_response", "export_responses"}

\* the code after `response = self.api.query(...)` of operation o
Result(o, r) ==
    CASE o = "list_surveys" -> list_surveys_result(r)
      [] o = "list_questions" -> list_questions_result(r)
      [] o = "add_survey" -> add_survey_result(r)
      [] o = "delete_survey" -> delete_survey_result(r)
      [] o = "add_question" -> add_question_result(r)
      [] o = "delete_question" -> delete_question_result(r)
      [] o = "import_survey" -> import_survey_result(r)
      [] o = "activate_survey" -> activate_survey_result(r)
      [] o = "activate_tokens" -> activate_tokens_result(r)
      [] o = "list_groups" -> list_groups_result(r)
      [] o = "add_group" -> add_group_result(r)
      [] o = "get_survey_properties" -> get_survey_properties_result(r)
      [] o = "set_survey_properties" -> set_survey_properties_result(r)
      [] o = "add_response" -> add_response_result(r)
      [] o = "export_responses" -> export_responses_result(r)

-----------------------------------------------------------------------------
(* posixpath.splitext, as import_survey uses it *)

RECURSIVE RFind(_, _, _)
\* the last index of c in s at or before i, 0 when there is none
RFind(s, c, i) == IF i = 0 THEN 0 ELSE IF s[i] = c THEN i ELSE RFind(s, c, i - 1)

\* splitext(path)[1] without the [1:]: the extension with its dot
import_datatype_with_dot(path) ==
    LET sepIndex == RFind(path, "/", Len(path))
        dotIndex == RFind(path, ".", Len(path))
    IN IF dotIndex > sepIndex
          /\ \E i \in (sepIndex + 1)..(dotIndex - 1) : path[i] # "."
       THEN SubSeq(path, dotIndex, Len(path))
       ELSE <<>>

\* splitext(path)[1][1:]: the extension without its dot.  A dot counts only
\* after the last '/', and only when a character other than '.' comes
\* before it in the file name.
import_datatype(path) ==
    LET sepIndex == RFind(path, "/", Len(path))
        dotIndex == RFind(path, ".", Len(path))
    IN IF dotIndex > sepIndex
          /\ \E i \in (sepIndex + 1)..(dotIndex - 1) : path[i] # "."
       THEN SubSeq(path, dotIndex + 1, Len(path))
       ELSE <<>>

-----------------------------------------------------------------------------
(* The callers' arguments and the transport's replies *)

Chars_list_radio == <<"L", "I", "S", "T", "_", "R", "A", "D", "I", "O">>
Chars_array == <<"A", "R", "R", "A", "Y">>

\* str.lower() of one upper-case name
lower(chars) ==
    [i \in 1..Len(chars) |->
        IF \E j \in 1..26 : UpperLetters[j] = chars[i]
        THEN LowerLetters[IndexOf(UpperLetters, chars[i])]
        ELSE chars[i]]

\* number of leading letters of a type name whose case the caller varies
MaxCaseLetters == 2

\* the spellings of a member name: all lower case, and each choice of
\* lower-case letters among the first MaxCaseLetters
Spellings(name) ==
    {lower(name)} \cup
    {[i \in 1..Len(name) |-> IF i \in S THEN lower(name)[i] ELSE name[i]] :
        S \in SUBSET (1..MaxCaseLetters)}

QuestionTypeArgs ==
    {PyNone, PyStr(<<>>)}
    \cup {PyStr(c) : c \in Spellings(Chars_list_radio) \cup Spellings(Chars_array)}
    \cup {PyStr(<<"f", "o", "o">>), PyStr(<<"A", "R", "R", "A">>),
          PyStr(<<"L", "I", "S", "T", "-", "R", "A", "D", "I", "O">>)}

SessionKeys == {PyStr(<<"k", "1">>), PyStr(<<"k", "2">>)}
Usernames == {PyStr(<<"a", "d", "m", "i", "n">>)}

IdArgs == {PyInt(5), PyStr(<<"1", "2">>), PyStr(<<"x">>)}
TextArgs == {PyNone, PyStr(<<"t">>)}
QuestionArgs == {PyStr(<<"A", "g", "e", "?">>)}

PathArgs ==
    {<<"a", ".", "l", "s", "s">>, <<"a", ".", "c", "s", "v">>,
     <<".", "l", "s", "s">>, <<"d", ".", "x", "/", "f">>,
     <<"a", ".", "l", "s", "s", ".", "l", "s", "a">>}
\* what open(path, 'rb') finds: no file, or a file with these contents
FileStates == {[exists |-> FALSE, data |-> ""], [exists |-> TRUE, data |-> "<survey/>"]}

\* every status string some operation names, whole and as the source
\* spells its pieces, and two that no operation names
StatusStrings ==
    {"No surveys found", "No questions found", "No groups found",
     "Invalid user", "Invalid session key", "No permission",
     "Error: Invalid survey ID", "Error: Invalid language",
     "Error: IMissmatch in surveyid and groupid",
     "Creation Failed result", "Faulty parameters",
     "Creation Failed resultFaulty parameters",
     "Language code not found for this survey.",
     "No Data, could not get max id.", "No Data, survey table does not exist",
     "Error: ...", "Invalid extension", "Error: Activation Error",
     "Survey participants table could not be created",
     "Invalid S ession key", "No permissionInvalid S ession key",
     "No valid Data", "Invalid survey ID", "Invalid survey IDNo valid Data",
     "Invalid survey IDNo permission",
     "no permission", "Unknown error"}

JsonBytes == {ByteSpace, ByteComma, ByteMinus, ByteZero, ByteZero + 1, ByteOpen, ByteClose}

\* the documents the server exports: every byte string of JsonBytes up to
\* MaxJsonLen bytes
JsonDocuments == UNION {[1..n -> JsonBytes] : n \in 0..MaxJsonLen}

RECURSIVE b64encode(_)
\* base64 of a byte string, as the server computes it
b64encode(bytes) ==
    LET c(n) == B64Chars[n + 1]
    IN IF bytes = <<>> THEN <<>>
       ELSE IF Len(bytes) = 1
       THEN <<c(bytes[1] \div 4), c((bytes[1] % 4) * 16), "=", "=">>
       ELSE IF Len(bytes) = 2
       THEN <<c(bytes[1] \div 4), c((bytes[1] % 4) * 16 + bytes[2] \div 16),
              c((bytes[2] % 16) * 4), "=">>
       ELSE <<c(bytes[1] \div 4), c((bytes[1] % 4) * 16 + bytes[2] \div 16),
              c((bytes[2] % 16) * 4 + bytes[3] \div 64), c(bytes[3] % 64)>>
            \o b64encode(SubSeq(bytes, 4, Len(bytes)))

\* strings that are not the base64 of a JSON document
BrokenExports ==
    {<<"M">>, <<"M", "Q">>, <<"M", "Q", "=">>, <<"M", "Q", "=", "=", "\n">>,
     <<"M", "=", "Q", "=", "=">>, <<"!", "M", "Q", "=", "=">>,
     <<"M", "Q", "=", "=", "M", "Q", "=", "=">>, <<"e", "3", "0", "h">>}

ExportReplies ==
    {PyStr(b64encode(d)) : d \in JsonDocuments} \cup {PyStr(x) : x \in BrokenExports}

\* what api.query may return to a call of method m
Responses(m) ==
    {PyDict({"status"}, st) : st \in StatusStrings}
    \cup {PyDict({}, ""), PyDict({"sid"}, "")}
    \cup {PyList(<<>>), PyList(<<PyDict({"sid"}, "")>>)}
    \cup {PyInt(0), PyInt(7), PyBool(TRUE), PyNone}
    \cup (IF m = "export_responses" THEN ExportReplies
          ELSE {PyStr(<<>>), PyStr(<<"M", "Q", "=", "=">>)})

-----------------------------------------------------------------------------
(* The state machine *)

KV(k, v) == [k |-> k, v |-> v]

\* the argument of the running operation named k
Arg(k) == DictGet(args, k)

\* params[k] of the running operation
Param(k) == DictGet(params, k)

Init ==
    /\ pc = "idle"
    /\ op = ""
    /\ args = <<>>
    /\ method = ""
    /\ params = <<>>
    /\ fields = <<>>
    /\ calls = 0
    /\ response = PyNone
    /\ outcome = NoOutcome
    /\ warned = <<>>
    /\ session_key \in SessionKeys
    /\ username \in Usernames
    /\ id_length = 19
    /\ rand_n = <<>>
    /\ generated = <<>>
    /\ rendered = ""

\* an operation starts only when no other is running (one thread)
Ready == pc = "idle"

\* the call issued a second time
Query_again(o, m, p) ==
    /\ op' = o
    /\ method' = m
    /\ params' = p
    /\ calls' = 2
    /\ pc' = "waiting"
    /\ response' = PyNone
    /\ outcome' = NoOutcome
    /\ UNCHANGED <<session_key, username, id_length, rendered>>

\* the call with an assignment to self.api.session_key before it
Query_rekeying(o, m, p) ==
    /\ op' = o
    /\ method' = m
    /\ params' = p
    /\ calls' = 1
    /\ pc' = "waiting"
    /\ response' = PyNone
    /\ outcome' = NoOutcome
    /\ session_key' \in SessionKeys \ {session_key}
    /\ UNCHANGED <<username, id_length, rendered>>

\* `response = self.api.query(method=method, params=params)`: the one call
\* of operation o; the operation waits for the transport
Query(o, m, p) ==
    /\ op' = o
    /\ method' = m
    /\ params' = p
    /\ calls' = 1
    /\ pc' = "waiting"
    /\ response' = PyNone
    /\ outcome' = NoOutcome
    /\ UNCHANGED <<session_key, username, id_length, rendered>>

\* operation o ends with an exception before it reaches api.query
Abort(o, m, kind) ==
    /\ op' = o
    /\ method' = m
    /\ params' = <<>>
    /\ calls' = 0
    /\ pc' = "done"
    /\ response' = PyNone
    /\ outcome' = Raised(kind)
    /\ UNCHANGED <<session_key, username, id_length, rendered>>

NoLocals == fields' = <<>> /\ warned' = <<>> /\ rand_n' = <<>> /\ generated' = <<>>

list_surveys ==
    \E user \in {PyNone, PyStr(<<>>), PyStr(<<"b", "o", "b">>)} :
        /\ Ready
        /\ NoLocals
        /\ args' = <<KV("username", user)>>
        /\ Query("list_surveys", "list_surveys",
                 <<KV("sSessionKey", session_key),
                   KV("iSurveyID", IF Truthy(user) THEN user ELSE username)>>)

list_questions ==
    \E survey_id \in IdArgs, group_id \in {PyNone, PyInt(2)}, language \in TextArgs :
        /\ Ready
        /\ NoLocals
        /\ args' = <<KV("survey_id", survey_id), KV("group_id", group_id),
                     KV("language", language)>>
        /\ Query("list_questions", "list_questions",
                 <<KV("sSessionKey", session_key), KV("iSurveyID", survey_id),
                   KV("iGroupID", group_id), KV("sLanguage", language)>>)

add_survey ==
    \E title \in QuestionArgs, survey_id \in IdArgs \cup {PyNone},
       language \in TextArgs, format_ \in TextArgs :
        /\ Ready
        /\ NoLocals
        /\ args' = <<KV("title", title), KV("survey_id", survey_id),
                     KV("language", language), KV("format_", format_)>>
        /\ IF Truthy(survey_id) /\ ~IntCastable(survey_id)
           THEN Abort("add_survey", "add_survey", "ValueError")
           ELSE Query("add_survey", "add_survey",
                  <<KV("sSessionKey", session_key),
                    KV("iSurveyID", IF Truthy(survey_id)
                                    THEN PyInt(IntCast(survey_id)) ELSE PyInt(1)),
                    KV("sSurveyTitle", title),
                    KV("sSurveyLanguage", IF Truthy(language) THEN language
                                          ELSE PyStr(<<"e", "n">>)),
                    KV("sForamt", IF Truthy(format_) THEN format_
                                  ELSE PyStr(<<"G">>))>>)

delete_survey ==
    \E survey_id \in IdArgs :
        /\ Ready
        /\ NoLocals
        /\ args' = <<KV("survey_id", survey_id)>>
        /\ Query("delete_survey", "delete_survey",
                 <<KV("sSessionKey", session_key), KV("iSurveyID", survey_id)>>)

add_question ==
    \E survey_id \in IdArgs, group_id \in {PyInt(2), PyStr(<<"0", "7">>)},
       question \in QuestionArgs, question_help \in TextArgs,
       question_type \in QuestionTypeArgs, mandatory \in {PyNone, PyStr(<<"Y">>)} :
        /\ Ready
        /\ warned' = <<>>
        /\ args' = <<KV("survey_id", survey_id), KV("group_id", group_id),
                     KV("question", question), KV("question_help", question_help),
                     KV("question_type", question_type), KV("mandatory", mandatory)>>
        /\ \/ /\ invalid_question_type(question_type)
              /\ fields' = <<>> /\ rand_n' = <<>> /\ generated' = <<>>
              /\ Abort("add_question", "import_question", "ValueError")
           \/ /\ ~invalid_question_type(question_type)
              /\ ~(IntCastable(survey_id) /\ IntCastable(group_id))
              /\ fields' = <<>> /\ rand_n' = <<>> /\ generated' = <<>>
              /\ Abort("add_question", "import_question", "ValueError")
           \/ /\ ~invalid_question_type(question_type)
              /\ IntCastable(survey_id) /\ IntCastable(group_id)
              /\ \E draw \in generate_id_draws(id_length) :
                    /\ rand_n' = draw.n
                    /\ generated' = draw.id
                    /\ fields' = question_fields(survey_id, group_id, question,
                                     question_help, question_type, mandatory, draw.id)
              /\ Query("add_question", "import_question",
                       <<KV("sSessionKey", session_key), KV("iSurveyID", survey_id),
                         KV("iGroupID", group_id),
                         KV("sImportData", render_lsq(fields')),
                         KV("sImportDataType", PyStr(<<"l", "s", "q">>))>>)

delete_question ==
    \E question_id \in IdArgs :
        /\ Ready
        /\ NoLocals
        /\ args' = <<KV("question_id", question_id)>>
        /\ Query("delete_question", "delete_question",
                 <<KV("sSessionKey", session_key), KV("iQuestionID", question_id)>>)

import_survey ==
    \E path \in PathArgs, new_name \in TextArgs, dest_survey_id \in {PyNone, PyInt(9)},
       file \in FileStates :
        /\ Ready
        /\ fields' = <<>> /\ rand_n' = <<>> /\ generated' = <<>>
        /\ args' = <<KV("path_to_import_survey", PyStr(path)), KV("new_name", new_name),
                     KV("dest_survey_id", dest_survey_id)>>
        /\ warned' = IF import_datatype(path) # <<"l", "s", "s">> /\ Truthy(new_name)
                     THEN <<"RuntimeWarning">> ELSE <<>>
        /\ IF ~file.exists
           THEN Abort("import_survey", "", "OSError")
           ELSE Query("import_survey", "import_survey",
                  <<KV("sSessionKey", session_key),
                    KV("sImportData", PyB64(file.data)),
                    KV("sImportDataType", PyStr(import_datatype(path))),
                    KV("sNewSurveyName", new_name),
                    KV("DestSurveyID", dest_survey_id)>>)

activate_survey ==
    \E survey_id \in IdArgs :
        /\ Ready
        /\ NoLocals
        /\ args' = <<KV("survey_id", survey_id)>>
        /\ Query("activate_survey", "activate_survey",
                 <<KV("sSessionKey", session_key), KV("iSurveyID", survey_id)>>)

activate_tokens ==
    \E survey_id \in IdArgs, attribute_fields \in {PyList(<<>>), PyList(<<PyInt(1)>>)} :
        /\ Ready
        /\ NoLocals
        /\ args' = <<KV("survey_id", survey_id), KV("attribute_fields", attribute_fields)>>
        /\ Query("activate_tokens", "activate_tokens",
                 <<KV("sSessionKey", session_key), KV("iSurveyId", survey_id),
                   KV("aAttributeFields", attribute_fields)>>)

list_groups ==
    \E survey_id \in IdArgs :
        /\ Ready
        /\ NoLocals
        /\ args' = <<KV("survey_id", survey_id)>>
        /\ Query("list_groups", "list_groups",
                 <<KV("sSessionKey", session_key), KV("iSurveyID", survey_id)>>)

add_group ==
    \E survey_id \in IdArgs, group_title \in QuestionArgs, group_description \in TextArgs :
        /\ Ready
        /\ NoLocals
        /\ args' = <<KV("survey_id", survey_id), KV("group_title", group_title),
                     KV("group_description", group_description)>>
        /\ Query("add_group", "add_group",
                 <<KV("sSessionKey", session_key), KV("iSurveyID", survey_id),
                   KV("sGroupTitle", group_title),
                   KV("sGroupDescription", IF Truthy(group_description)
                                           THEN group_description ELSE PyStr(<<>>))>>)

get_survey_properties ==
    \E survey_id \in IdArgs, settings \in {PyNone, PyList(<<PyStr(<<"s", "i", "d">>)>>)} :
        /\ Ready
        /\ NoLocals
        /\ args' = <<KV("survey_id", survey_id), KV("settings", settings)>>
        /\ Query("get_survey_properties", "get_survey_properties",
                 <<KV("sSessionKey", session_key), KV("iSurveyID", survey_id),
                   KV("aSurveySetting", settings)>>)

set_survey_properties ==
    \E survey_id \in IdArgs, settings \in {PyDict({}, ""), PyDict({"active"}, "")} :
        /\ Ready
        /\ NoLocals
        /\ args' = <<KV("survey_id", survey_id), KV("settings", settings)>>
        /\ Query("set_survey_properties", "set_survey_properties",
                 <<KV("sSessionKey", session_key), KV("iSurveyID", survey_id),
                   KV("aSurveyData", settings)>>)

add_response ==
    \E survey_id \in IdArgs, response_data \in {PyDict({}, ""), PyDict({"token"}, "")} :
        /\ Ready
        /\ NoLocals
        /\ args' = <<KV("survey_id", survey_id), KV("response_data", response_data)>>
        /\ Query("add_response", "add_response",
                 <<KV("sSessionKey", session_key), KV("iSurveyID", survey_id),
                   KV("aResponseData", response_data)>>)

\* the definition of lines 704-728; completion_status, heading_type and
\* response_type at their defaults, the other optional arguments None
export_responses ==
    \E survey_id \in {PyInt(5)}, document_type \in {PyStr(<<"j", "s", "o", "n">>)},
       language_code \in TextArgs :
        /\ Ready
        /\ NoLocals
        /\ args' = <<KV("survey_id", survey_id), KV("document_type", document_type),
                     KV("language_code", language_code)>>
        /\ Query("export_responses", "export_responses",
                 <<KV("sSessionKey", session_key), KV("iSurveyID", survey_id),
                   KV("sDocumentType", document_type),
                   KV("sLanguageCode", language_code),
                   KV("sCompletionStatus", PyStr(<<"a", "l", "l">>)),
                   KV("sHeadingType", PyStr(<<"c", "o", "d", "e">>)),
                   KV("sResponseType", PyStr(<<"s", "h", "o", "r", "t">>)),
                   KV("sFromResponseID", PyNone), KV("sToResponseID", PyNone),
                   KV("aFields", PyNone)>>)

\* api.query returns: the running operation classifies the response and ends
query_returns ==
    /\ pc = "waiting"
    /\ \E r \in Responses(method) :
          /\ response' = r
          /\ outcome' = Result(op, r)
    /\ pc' = "done"
    /\ UNCHANGED <<op, args, method, params, fields, calls, warned, session_key,
                   username, id_length, rand_n, generated, rendered>>

\* the operation has returned or raised: its frame and locals are gone and
\* the caller may invoke the next operation
caller_continues ==
    /\ pc = "done"
    /\ pc' = "idle"
    /\ op' = ""
    /\ args' = <<>>
    /\ method' = ""
    /\ params' = <<>>
    /\ calls' = 0
    /\ response' = PyNone
    /\ outcome' = NoOutcome
    /\ NoLocals
    /\ UNCHANGED <<session_key, username, id_length, rendered>>

\* the transport, which owns the session key, replaces it between two
\* operations (a new login); _Survey holds only the reference self.api
session_renewed ==
    /\ pc = "idle"
    /\ session_key' \in SessionKeys \ {session_key}
    /\ UNCHANGED <<pc, op, args, method, params, fields, calls, response, outcome,
                   warned, username, id_length, rand_n, generated, rendered>>

Next ==
    \/ list_surveys
    \/ list_questions
    \/ add_survey
    \/ delete_survey
    \/ add_question
    \/ delete_question
    \/ import_survey
    \/ activate_survey
    \/ activate_tokens
    \/ list_groups
    \/ add_group
    \/ get_survey_properties
    \/ set_survey_properties
    \/ add_response
    \/ export_responses
    \/ query_returns
    \/ caller_continues
    \/ session_renewed

Spec == Init /\ [][Next]_vars

-----------------------------------------------------------------------------
(* The IDGenerator on its own: IDGenerator(length).generate_id() *)

\* lengths of the generators explored: the short ones, the default length
\* of IDGenerator.__init__ and the length _survey.py constructs its
\* generator with
IdLengths == (1..MaxExhaustiveLength) \cup {8, 19}

InitId ==
    /\ pc = "idle"
    /\ op = ""
    /\ args = <<>>
    /\ method = ""
    /\ params = <<>>
    /\ fields = <<>>
    /\ calls = 0
    /\ response = PyNone
    /\ outcome = NoOutcome
    /\ warned = <<>>
    /\ session_key \in SessionKeys
    /\ username \in Usernames
    /\ id_length \in IdLengths
    /\ rand_n = <<>>
    /\ generated = <<>>
    /\ rendered = ""

\* one call of generate_id on a generator that is not in a call
generate_id ==
    /\ op = ""
    /\ \E draw \in generate_id_draws(id_length) :
          /\ rand_n' = draw.n
          /\ generated' = draw.id
    /\ op' = "generate_id"
    /\ UNCHANGED <<pc, args, method, params, fields, calls, response, outcome, warned,
                   session_key, username, id_length, rendered>>

\* the caller has taken the ID; the generator keeps nothing of the call
id_taken ==
    /\ op = "generate_id"
    /\ op' = ""
    /\ rand_n' = <<>>
    /\ generated' = <<>>
    /\ UNCHANGED <<pc, args, method, params, fields, calls, response, outcome, warned,
                   session_key, username, id_length, rendered>>

NextId ==
    \/ generate_id
    \/ id_taken

SpecId == InitId /\ [][NextId]_vars

-----------------------------------------------------------------------------
(* The module functions render_lsq_fieldnames and render_lsq_rows on their *)
(* own, called with an ordered mapping                                     *)

\* field names of the mappings explored (three of question_fieldnames)
FieldNames == {"qid", "title", "sid"}

\* values of the mappings explored: None, the falsy non-None values 0, ''
\* and False, and a text
FieldValues == {PyNone, PyInt(0), PyStr(<<>>), PyBool(FALSE), PyStr(<<"a", "b", "c">>)}

\* the ordered mappings of up to MaxFields fields: a key occurs once
FieldMappings ==
    LET KVs == [k : FieldNames, v : FieldValues]
    IN UNION {{m \in [1..n -> KVs] : \A i, j \in 1..n : m[i].k = m[j].k => i = j}
              : n \in 0..MaxFields}

InitRender ==
    /\ pc = "idle"
    /\ op = ""
    /\ args = <<>>
    /\ method = ""
    /\ params = <<>>
    /\ fields \in FieldMappings
    /\ calls = 0
    /\ response = PyNone
    /\ outcome = NoOutcome
    /\ warned = <<>>
    /\ session_key = PyNone
    /\ username = PyNone
    /\ id_length = 19
    /\ rand_n = <<>>
    /\ generated = <<>>
    /\ rendered = ""

\* render_lsq_fieldnames(fields.keys())
call_render_lsq_fieldnames ==
    /\ op = ""
    /\ op' = "render_lsq_fieldnames"
    /\ rendered' = render_lsq_fieldnames(DictKeys(fields))
    /\ UNCHANGED <<pc, args, method, params, fields, calls, response, outcome, warned,
                   session_key, username, id_length, rand_n, generated>>

\* render_lsq_rows(fields)
call_render_lsq_rows ==
    /\ op = ""
    /\ op' = "render_lsq_rows"
    /\ rendered' = render_lsq_rows(fields)
    /\ UNCHANGED <<pc, args, method, params, fields, calls, response, outcome, warned,
                   session_key, username, id_length, rand_n, generated>>

\* the caller has taken the text; the functions keep nothing of the call
text_taken ==
    /\ op \in {"render_lsq_fieldnames", "render_lsq_rows"}
    /\ op' = ""
    /\ rendered' = ""
    /\ UNCHANGED <<pc, args, method, params, fields, calls, response, outcome, warned,
                   session_key, username, id_length, rand_n, generated>>

NextRender ==
    \/ call_render_lsq_fieldnames
    \/ call_render_lsq_rows
    \/ text_taken

SpecRender == InitRender /\ [][NextRender]_vars

-----------------------------------------------------------------------------
(* What the claims speak of *)

\* the error strings each operation's source lists, one per string literal
DeclaredErrorStrings(o) ==
    CASE o = "list_surveys" -> {"Invalid user", "Invalid session key"}
      [] o = "list_questions" ->
            {"Error: Invalid survey ID", "Error: Invalid language",
             "Error: IMissmatch in surveyid and groupid", "No permission",
             "Invalid session key"}
      [] o \in {"add_survey", "add_group"} ->
            {"Creation Failed result", "Faulty parameters", "No permission",
             "Invalid session key"}
      [] o \in {"delete_survey", "delete_question"} ->
            {"No permission", "Invalid session key"}
      [] o \in {"add_question", "import_survey"} ->
            {"Error: ...", "Invalid extension", "No permission", "Invalid session key"}
      [] o = "activate_survey" ->
            {"Error: Invalid survey ID", "Error: Activation Error", "Error: ...",
             "No permission", "Invalid session key"}
      [] o = "activate_tokens" ->
            {"Error: Invalid survey ID",
             "Survey participants table could not be created", "No permission",
             "Invalid session key"}
      [] o = "list_groups" ->
            {"Error: Invalid survey ID", "No permission", "Invalid S ession key"}
      [] o \in {"get_survey_properties", "set_survey_properties"} ->
            {"No valid Data", "Invalid survey ID", "No permission", "Invalid session key"}
      [] o = "add_response" ->
            {"Invalid survey ID", "No permission", "Invalid session key"}
      [] o = "export_responses" ->
            {"Language code not found for this survey.",
             "No Data, could not get max id.",
             "No Data, survey table does not exist", "No permission",
             "Invalid session key"}

\* the operations whose source lists 'No permission'
NoPermissionOperations ==
    {"list_questions", "add_survey", "delete_survey", "add_question",
     "delete_question", "import_survey", "activate_survey", "activate_tokens",
     "list_groups", "add_group", "get_survey_properties", "set_survey_properties",
     "add_response", "export_responses"}

\* the status that means "nothing found", for the operations that have one
EmptyResultStatus(o) ==
    CASE o = "list_surveys" -> {"No surveys found"}
      [] o = "list_questions" -> {"No questions found"}
      [] o = "list_groups" -> {"No groups found"}
      [] OTHER -> {}

\* the type each operation declares for a successful response
SuccessType(o) ==
    CASE o \in {"list_surveys", "list_questions", "delete_survey",
                "activate_survey", "activate_tokens", "list_groups"} -> "list"
      [] o \in {"add_survey", "add_question", "delete_question", "import_survey",
                "add_group", "add_response"} -> "int"
      [] o \in {"get_survey_properties", "set_survey_properties"} -> "dict"
      [] o = "export_responses" -> "str"

\* the strings the for loop of an operation compares the status with
ComparedStrings(o) ==
    LET l == CASE o = "list_surveys" -> list_surveys_errors
               [] o = "list_questions" -> list_questions_errors
               [] o = "add_survey" -> add_survey_errors
               [] o = "delete_survey" -> delete_survey_errors
               [] o = "add_question" -> add_question_errors
               [] o = "delete_question" -> delete_question_errors
               [] o = "import_survey" -> import_survey_errors
               [] o = "activate_survey" -> activate_survey_errors
               [] o = "activate_tokens" -> activate_tokens_errors
               [] o = "list_groups" -> list_groups_errors
               [] o = "add_group" -> add_group_errors
               [] o = "get_survey_properties" -> get_survey_properties_errors
               [] o = "set_survey_properties" -> set_survey_properties_errors
               [] o = "add_response" -> add_response_errors
               [] o = "export_responses" -> <<>>
    IN {l[i] : i \in 1..Len(l)}

\* the operation has ended after a reply that is a mapping with a status
EndedOnStatus == pc = "done" /\ calls = 1 /\ HasStatus(response)

\* the operation has ended after a reply that is no mapping with a status
EndedOnValue == pc = "done" /\ calls = 1 /\ ~HasStatus(response)

-----------------------------------------------------------------------------
(* The claims *)

\* C1: whenever an operation has ended on a reply whose status is one of the
\* error strings its source lists, it has raised LimeSurveyError with its
\* method name and that status.
C1_DeclaredStatusRaises ==
    EndedOnStatus /\ response.status \in DeclaredErrorStrings(op)
        => outcome = LimeSurveyError(method, response.status)

\* C2: whenever an operation that lists 'No permission' has ended on the reply
\* {status: 'No permission'}, it has raised LimeSurveyError with that status.
C2_NoPermissionRaises ==
    EndedOnStatus /\ op \in NoPermissionOperations /\ response.status = "No permission"
        => outcome.kind = "LimeSurveyError" /\ outcome.status = "No permission"

\* C3: whenever an operation has ended on a reply whose status is neither one
\* of its error strings nor its empty-result status, it has ended in an
\* assertion failure and has not returned the reply.
C3_UnknownStatusAsserts ==
    /\ EndedOnStatus
    /\ response.status \notin
         DeclaredErrorStrings(op) \cup ComparedStrings(op) \cup EmptyResultStatus(op)
    => outcome.kind = "AssertionError"

\* C4: whenever list_surveys, list_questions or list_groups has ended on a
\* reply whose status is its empty-result status, it has returned the empty
\* list.
C4_EmptyResultReturnsEmptyList ==
    EndedOnStatus /\ response.status \in EmptyResultStatus(op)
        => outcome = Returned(PyList(<<>>))

\* C4 witness: list_groups has returned [] on 'No groups found'
C4_Witness ==
    /\ EndedOnStatus
    /\ op = "list_groups"
    /\ response.status = "No groups found"
    /\ outcome.kind = "return"
    /\ outcome.value.type = "list"
    /\ outcome.value.items = <<>>

\* C5: whenever an operation has ended on a reply that is no mapping with a
\* status, it has returned only if the reply's type is its success type, and
\* then (export_responses apart) it has returned the reply itself; on any
\* other type it has ended in an assertion failure.
C5_TypeAssertedThenReturnedUnchanged ==
    EndedOnValue =>
        /\ outcome.kind = "return" => response.type = SuccessType(op)
        /\ response.type = SuccessType(op) /\ op # "export_responses"
              => outcome = Returned(response)
        /\ response.type # SuccessType(op) => outcome = Raised("AssertionError")

\* C5 witness: get_survey_properties has returned a mapping without status
C5_Witness ==
    /\ EndedOnValue
    /\ op = "get_survey_properties"
    /\ response = PyDict({"sid"}, "")
    /\ outcome = Returned(response)

\* the ways an operation ends once the transport has replied
ClassificationOutcomes ==
    {"return", "LimeSurveyError", "AssertionError", "binascii.Error", "JSONDecodeError"}

\* C6: an operation that reaches the transport issues one query call and no
\* second one: while it waits and when it ends the count is one, it leaves
\* the wait only by ending, every classification outcome arises from the
\* wait of that one call, and an operation that ends with no call ended
\* before the transport (ValueError, or the file could not be opened).
C6_ExactlyOneQuery ==
    [][ /\ pc' = "waiting" => calls' = 1
        /\ pc = "waiting" =>
              /\ pc' = "done"
              /\ calls = 1 /\ calls' = 1
              /\ outcome'.kind \in ClassificationOutcomes
        /\ outcome'.kind \in ClassificationOutcomes /\ outcome.kind = "none"
              => pc = "waiting" /\ calls = 1 /\ calls' = 1
        /\ pc' = "done" /\ calls' # 1
              => calls' = 0 /\ outcome'.kind \in {"ValueError", "OSError"}
      ]_vars

\* C6 witness: export_responses ended in an assertion failure after one call
C6_Witness ==
    /\ pc = "done"
    /\ op = "export_responses"
    /\ calls = 1
    /\ outcome.kind = "AssertionError"

\* C7: in add_question every spelling of list_radio resolves to 'L' (and of
\* array to 'F'), any name whose upper case is a member resolves to that
\* member's value, no name or the empty name resolves to 'S', and any other
\* name ends the operation with ValueError before any query call.
C7_QuestionTypeResolution ==
    op = "add_question" /\ pc # "idle" =>
        LET qt == Arg("question_type")
            castable == IntCastable(Arg("survey_id")) /\ IntCastable(Arg("group_id"))
            member == Join(upper(qt.text))
        IN /\ castable /\ qt.type = "str" /\ qt.text \in Spellings(Chars_list_radio)
                => fields # <<>> /\ DictGet(fields, "type") = PyStr(<<"L">>)
           /\ castable /\ qt.type = "str" /\ qt.text \in Spellings(Chars_array)
                => fields # <<>> /\ DictGet(fields, "type") = PyStr(<<"F">>)
           /\ castable /\ (qt = PyNone \/ qt = PyStr(<<>>))
                => fields # <<>> /\ DictGet(fields, "type") = PyStr(<<"S">>)
           /\ castable /\ qt.type = "str" /\ qt.text # <<>>
                /\ member \in DOMAIN QUESTION_TYPE
                => fields # <<>>
                   /\ DictGet(fields, "type") = PyStr(<<QUESTION_TYPE[member]>>)
           /\ qt.type = "str" /\ qt.text # <<>> /\ member \notin DOMAIN QUESTION_TYPE
                => /\ pc = "done"
                   /\ outcome = Raised("ValueError")
                   /\ calls = 0
                   /\ params = <<>>

\* C7 witness: add_question called with 'lIST_RADIO' has sent type 'L'
C7_Witness ==
    /\ op = "add_question"
    /\ pc = "waiting"
    /\ Arg("question_type") = PyStr(<<"l", "I", "S", "T", "_", "R", "A", "D", "I", "O">>)
    /\ DictGet(fields, "type") = PyStr(<<"L">>)

RECURSIVE IntBytes(_)
\* the decimal digits of n >= 0 as bytes
IntBytes(n) ==
    IF n < 10 THEN <<ByteZero + n>> ELSE Append(IntBytes(n \div 10), ByteZero + (n % 10))

RECURSIVE JsonDumps(_)
RECURSIVE JsonDumpsItems(_)
\* the JSON text of a value, without white space
JsonDumps(v) ==
    IF v.type = "int"
    THEN IF v.num < 0 THEN <<ByteMinus>> \o IntBytes(0 - v.num) ELSE IntBytes(v.num)
    ELSE <<ByteOpen>> \o JsonDumpsItems(v.items) \o <<ByteClose>>
JsonDumpsItems(its) ==
    IF its = <<>> THEN <<>>
    ELSE JsonDumps(Head(its))
         \o (IF Len(its) > 1 THEN <<ByteComma>> ELSE <<>>)
         \o JsonDumpsItems(Tail(its))

RECURSIVE Canonical(_)
\* a JSON document without its white space, and with -0 written 0
Canonical(d) ==
    IF d = <<>> THEN <<>>
    ELSE IF d[1] = ByteSpace THEN Canonical(Tail(d))
    ELSE IF Len(d) >= 2 /\ d[1] = ByteMinus /\ d[2] = ByteZero THEN Canonical(Tail(d))
    ELSE <<d[1]>> \o Canonical(Tail(d))

\* C8: when export_responses has returned on a string reply, the result is
\* not that string; and when the reply is the base64 text of a document d,
\* the result is the JSON value d denotes (its JSON text is d, white space
\* apart).
C8_ExportDecodesAndParses ==
    pc = "done" /\ op = "export_responses" /\ response.type = "str"
        /\ outcome.kind = "return"
    => /\ outcome.value # response
       /\ LET d == decodestring(response.text).bytes
          IN b64encode(d) = response.text => JsonDumps(outcome.value) = Canonical(d)

\* C8 witness: on 'WzFd', the base64 text of [1], the list [1] was returned
C8_Witness ==
    /\ pc = "done"
    /\ op = "export_responses"
    /\ response = PyStr(<<"W", "z", "F", "d">>)
    /\ outcome = Returned(PyList(<<PyInt(1)>>))

\* the <fields> block of the question document, as text
C9_FieldsBlock ==
    "<fields><fieldname>qid</fieldname><fieldname>parent_qid</fieldname>"
    \o "<fieldname>sid</fieldname><fieldname>gid</fieldname>"
    \o "<fieldname>type</fieldname><fieldname>title</fieldname>"
    \o "<fieldname>question</fieldname><fieldname>preg</fieldname>"
    \o "<fieldname>help</fieldname><fieldname>other</fieldname>"
    \o "<fieldname>mandatory</fieldname><fieldname>question_order</fieldname>"
    \o "<fieldname>language</fieldname><fieldname>scale_id</fieldname>"
    \o "<fieldname>same_default</fieldname><fieldname>relevance</fieldname>"
    \o "<fieldname>modulename</fieldname></fields>"

\* the <rows> block of a question asked with survey, group and question only
C9_DefaultRows(sid, gid, id, question) ==
    "<rows><row><qid/><parent_qid><![CDATA[0]]></parent_qid>"
    \o "<sid><![CDATA[" \o sid \o "]]></sid><gid><![CDATA[" \o gid \o "]]></gid>"
    \o "<type><![CDATA[S]]></type><title><![CDATA[q" \o id \o "]]></title>"
    \o "<question><![CDATA[" \o question \o "]]></question><preg/><help/><other/>"
    \o "<mandatory><![CDATA[N]]></mandatory><question_order/>"
    \o "<language><![CDATA[en]]></language><scale_id/><same_default/>"
    \o "<relevance/><modulename/></row></rows>"

\* the decimal text of the integer an id argument of the model casts to
C9_IdText(v) ==
    CASE v = PyInt(5) -> "5"
      [] v = PyInt(2) -> "2"
      [] v = PyStr(<<"1", "2">>) -> "12"
      [] v = PyStr(<<"0", "7">>) -> "7"

\* C9: whenever add_question has sent its query, sImportDataType is 'lsq' and
\* sImportData is the document whose fields block names the 17 fields in
\* the order of question_fieldnames and whose row holds the same fields in
\* that order; called with survey, group and question only, the row is:
\* type 'S', mandatory 'N', language 'en', parent_qid 0, sid and gid the
\* integers of the ids, title 'q' and 19 characters of the ID alphabet, the
\* question, and every other field empty.
C9_QuestionDocument ==
    op = "add_question" /\ pc = "waiting" =>
        /\ Len(question_fieldnames) = 17
        /\ DictKeys(fields) = question_fieldnames
        /\ Param("sImportDataType") = PyStr(<<"l", "s", "q">>)
        /\ Param("sImportData")
             = PyB64(question_template(C9_FieldsBlock, render_lsq_rows(fields)))
        /\ Len(generated) = 19
        /\ \A i \in 1..Len(generated) : \E j \in 1..Len(ALPHABET) : generated[i] = ALPHABET[j]
        /\ DictGet(fields, "title") = PyStr(<<"q">> \o generated)
        /\ Arg("question_help") = PyNone /\ Arg("question_type") = PyNone
              /\ Arg("mandatory") = PyNone
           => Param("sImportData")
                = PyB64(question_template(C9_FieldsBlock,
                          C9_DefaultRows(C9_IdText(Arg("survey_id")),
                                         C9_IdText(Arg("group_id")),
                                         Join(generated), "Age?")))

\* C9 witness: add_question(5, 2, 'Age?') has sent the default document
C9_Witness ==
    /\ op = "add_question"
    /\ pc = "waiting"
    /\ Arg("survey_id") = PyInt(5) /\ Arg("group_id") = PyInt(2)
    /\ Arg("question") = PyStr(<<"A", "g", "e", "?">>)
    /\ Arg("question_help") = PyNone /\ Arg("question_type") = PyNone
    /\ Arg("mandatory") = PyNone
    /\ Param("sImportData")
         = PyB64(question_template(C9_FieldsBlock,
                   C9_DefaultRows("5", "2", "c1y7ilc1y7ilc1y7ilc", "Age?")))

RECURSIVE ValueMsbFirst(_, _)
\* the integer a digit string denotes when its first digit is the most
\* significant one: acc*36 + digit, left to right
ValueMsbFirst(chars, acc) ==
    IF chars = <<>> THEN acc
    ELSE ValueMsbFirst(Tail(chars),
                       BigMulAdd(acc, alphabet_length, IndexOf(ALPHABET, Head(chars)) - 1))

\* C10: an ID returned by generate_id has as many characters as the
\* generator's length, all of ALPHABET, does not start with ALPHABET's first
\* character, and read most significant digit first is the integer drawn.
C10_EncodedId ==
    op = "generate_id" =>
        /\ Len(generated) = id_length
        /\ \A i \in 1..Len(generated) : \E j \in 1..Len(ALPHABET) : generated[i] = ALPHABET[j]
        /\ generated[1] # ALPHABET[1]
        /\ ValueMsbFirst(generated, <<>>) = rand_n

\* C10 witness: the 19-character generator drew its lower bound 36^18
C10_Witness ==
    /\ op = "generate_id"
    /\ id_length = 19
    /\ rand_n = BigPow(alphabet_length, 18)
    /\ Join(generated) = "baaaaaaaaaaaaaaaaaa"

\* C11: what the docstring of generate_id says of the IDs: a generator of
\* length eight returns '10000000' for the lower bound 36^7 of its range and
\* 'zzzzzzzz' for the upper bound 36^8 - 1, and no ID of any generator
\* starts with the character '0'.
C11_DocstringRange ==
    op = "generate_id" =>
        /\ generated[1] # "0"
        /\ id_length = 8 /\ rand_n = BigPow(alphabet_length, 7)
              => Join(generated) = "10000000"
        /\ id_length = 8 /\ rand_n = BigPred(BigPow(alphabet_length, 8))
              => Join(generated) = "zzzzzzzz"

\* the extension of the file names import_survey is called with: what
\* follows the last dot of the file name, nothing for a name that has no
\* dot or only a leading one
C13_Extension(path) ==
    CASE path = <<"a", ".", "l", "s", "s">> -> <<"l", "s", "s">>
      [] path = <<"a", ".", "c", "s", "v">> -> <<"c", "s", "v">>
      [] path = <<".", "l", "s", "s">> -> <<>>
      [] path = <<"d", ".", "x", "/", "f">> -> <<>>
      [] path = <<"a", ".", "l", "s", "s", ".", "l", "s", "a">> -> <<"l", "s", "a">>

\* C13: import_survey emits a RuntimeWarning exactly when the file's
\* extension is not 'lss' and a non-empty new_name is given; warned or not,
\* it issues the transport call with sImportDataType the extension and
\* sNewSurveyName the requested name, and the only thing that keeps it from
\* the call is a file that cannot be opened.
C13_WarnsAndStillCalls ==
    op = "import_survey" =>
        LET extension == C13_Extension(Arg("path_to_import_survey").text)
            new_name == Arg("new_name")
        IN /\ warned = IF extension # <<"l", "s", "s">>
                          /\ new_name \notin {PyNone, PyStr(<<>>)}
                       THEN <<"RuntimeWarning">> ELSE <<>>
           /\ calls \in {0, 1}
           /\ calls = 1 =>
                 /\ method = "import_survey"
                 /\ Param("sImportDataType") = PyStr(extension)
                 /\ Param("sNewSurveyName") = new_name
                 /\ params[1] = KV("sSessionKey", session_key)
           /\ calls = 0 => pc = "done" /\ outcome = Raised("OSError")

\* C13 witness: import_survey('a.csv', new_name='t') has warned and is in
\* its transport call
C13_Witness ==
    /\ op = "import_survey"
    /\ pc = "waiting"
    /\ calls = 1
    /\ warned = <<"RuntimeWarning">>
    /\ Arg("path_to_import_survey") = PyStr(<<"a", ".", "c", "s", "v">>)
    /\ Param("sImportDataType") = PyStr(<<"c", "s", "v">>)
    /\ Param("sNewSurveyName") = PyStr(<<"t">>)

\* C14: whenever export_responses has ended on a reply that is a mapping
\* with a status, whatever the status, it has raised LimeSurveyError with
\* its method name and that status: it has neither returned the mapping nor
\* failed an assertion.  The shadowed first definition would have returned
\* the mapping for a status it does not list.
C14_ExportRaisesOnAnyStatus ==
    EndedOnStatus /\ op = "export_responses" =>
        /\ outcome = LimeSurveyError("export_responses", response.status)
        /\ outcome.kind \notin {"return", "AssertionError"}
        /\ (\A i \in 1..Len(export_responses_first_errors) :
                export_responses_first_errors[i] # response.status)
              => export_responses_first_result(response) = Returned(response)

\* C14 witness: export_responses has raised on a status that none of the
\* two definitions lists
C14_Witness ==
    /\ pc = "done"
    /\ op = "export_responses"
    /\ response = PyDict({"status"}, "Unknown error")
    /\ outcome = LimeSurveyError("export_responses", "Unknown error")

\* C15: no step of an operation writes the session key or the username (the
\* key changes only in a step of the transport, between operations); the
\* first parameter of every transport call is 'sSessionKey' with the key as
\* it is when the operation is called; the outcome is determined by the
\* operation and the reply; and once the caller has the outcome nothing of
\* the call is left, so the next call starts as the first one did.
C15_SessionKeyOnlyRead ==
    [][ /\ username' = username
        /\ id_length' = id_length
        /\ session_key' # session_key
              => /\ pc = "idle" /\ pc' = "idle"
                 /\ UNCHANGED <<op, args, method, params, fields, calls, response,
                                outcome, warned, rand_n, generated>>
        /\ pc = "idle" /\ pc' = "waiting"
              => /\ session_key' = session_key
                 /\ params'[1] = KV("sSessionKey", session_key)
        /\ pc = "waiting" /\ pc' = "done"
              => /\ params'[1] = KV("sSessionKey", session_key')
                 /\ outcome' = Result(op, response')
        /\ pc' = "idle"
              => /\ op' = "" /\ args' = <<>> /\ method' = "" /\ params' = <<>>
                 /\ fields' = <<>> /\ calls' = 0 /\ response' = PyNone
                 /\ outcome' = NoOutcome /\ warned' = <<>>
                 /\ rand_n' = <<>> /\ generated' = <<>>
      ]_vars

\* C15 witness: list_surveys has raised LimeSurveyError on a call that
\* carried the session key 'k2', and the key is still 'k2'
C15_Witness ==
    /\ pc = "done"
    /\ op = "list_surveys"
    /\ outcome.kind = "LimeSurveyError"
    /\ session_key = PyStr(<<"k", "2">>)
    /\ params[1] = KV("sSessionKey", PyStr(<<"k", "2">>))

\* the text of a non-null value as it stands between the CDATA brackets
C12_Text(v) ==
    CASE v = PyInt(0) -> "0"
      [] v = PyStr(<<>>) -> ""
      [] v = PyBool(FALSE) -> "False"
      [] v = PyStr(<<"a", "b", "c">>) -> "abc"

\* the one element of the row block for the field name |-> v
C12_Element(name, v) ==
    IF v = PyNone THEN "<" \o name \o "/>"
    ELSE "<" \o name \o "><![CDATA[" \o C12_Text(v) \o "]]></" \o name \o ">"

\* C12: for every ordered mapping, render_lsq_fieldnames gives one
\* <fieldname> entry per field in the mapping's order, and render_lsq_rows
\* gives, in the same order, exactly one element per field: '<name/>' for a
\* null value and '<name><![CDATA[value]]></name>' for any other value, a
\* falsy one such as 0 included.
C12_RenderedPerField ==
    /\ op = "render_lsq_fieldnames" =>
          rendered = "<fields>"
                     \o Join([i \in 1..Len(fields) |->
                                "<fieldname>" \o fields[i].k \o "</fieldname>"])
                     \o "</fields>"
    /\ op = "render_lsq_rows" =>
          /\ rendered = "<rows><row>"
                        \o Join([i \in 1..Len(fields) |->
                                   C12_Element(fields[i].k, fields[i].v)])
                        \o "</row></rows>"
          /\ fields = <<KV("qid", PyNone), KV("title", PyStr(<<"a", "b", "c">>))>>
                => rendered = "<rows><row><qid/><title><![CDATA[abc]]></title></row></rows>"

\* C12 witness: render_lsq_rows has rendered {'qid': 0, 'title': None}
C12_Witness ==
    /\ op = "render_lsq_rows"
    /\ fields = <<KV("qid", PyInt(0)), KV("title", PyNone)>>
    /\ rendered = "<rows><row><qid><![CDATA[0]]></qid><title/></row></rows>"

=============================================================================
